---- MODULE Spec2Model ----
(***************************************************************************)
(* The seed batch job of the food-ordering storefront (lib/seed.ts, kept   *)
(* as src/unnamed/part_000): clearAll, clearStorage, uploadImageToStorage  *)
(* and seed, run against a remote document-and-file store.                 *)
(*                                                                         *)
(* A remote call settles with success or with failure; the choice is the   *)
(* store's (or the image host's), so it is nondeterministic here.  The     *)
(* fan-out delete of a clear is the one place where several calls are in   *)
(* flight at once: the deletes are issued together and settle one by one.  *)
(* The store's list call is taken to return every entry of its target, as  *)
(* the seeder's code assumes (it issues one list call and no paging).      *)
(* Names of the dataset are ordinary words: no name is a property that a   *)
(* JavaScript object inherits (such as "constructor").                     *)
(*                                                                         *)
(* The menu card of the app (components/MenuCard.tsx) is the second        *)
(* program: it turns the image reference of a menu item into the URL it    *)
(* displays (getImageUrl).  References and URLs are strings, and the       *)
(* routine is computed on them character by character as the code does.    *)
(***************************************************************************)
EXTENDS Integers, Sequences, FiniteSets, TLC

\* ------------------------------------------------------------------ bounds
MaxOld == 2        \* documents (files) each target holds before the first run
MaxCats == 2       \* length of data.categories
MaxCus == 2        \* length of data.customizations
MaxMenu == 2       \* length of data.menu
MaxRuns == 2       \* calls of seed() in succession
MaxParts == 4      \* parts an image reference handed to the card is made of

\* ------------------------------------------------------- program constants
retries == 3           \* uploadImageToStorage(imageUrl, retries = 3)
BackoffUnitMs == 1000  \* Math.pow(2, attempt) * 1000

\* ----------------------------------------------------------------- helpers
SeqsUpTo(S, n) == UNION {[1..m -> S] : m \in 0..n}

\* The remote targets, in the order seed() clears them.
Targets == <<"categories", "customizations", "menu", "menu_customizations", "storage">>

NumTargets == Len(Targets)

\* ------------------------------------------------------------- the dataset
CatNames == {"Burgers", "Pizzas"}
CusNames == {"Cheese", "Bacon"}

\* Image references: a full https URL, a reference with another scheme, and
\* the empty string.
HttpsImage == [scheme |-> "https", managed |-> FALSE, file |-> 0]
FtpImage == [scheme |-> "ftp", managed |-> FALSE, file |-> 0]
EmptyImage == [scheme |-> "", managed |-> FALSE, file |-> 0]

MenuItems ==
    { [name |-> "Classic", category_name |-> "Burgers",
       customizations |-> <<"Cheese", "Bacon">>, image_url |-> HttpsImage],
      [name |-> "Margherita", category_name |-> "Pizzas",
       customizations |-> <<"Bacon", "Cheese">>, image_url |-> FtpImage],
      [name |-> "Calzone", category_name |-> "Pizzas",
       customizations |-> <<"Cheese", "Cheese">>, image_url |-> HttpsImage],
      [name |-> "Fries", category_name |-> "Burgers",
       customizations |-> <<>>, image_url |-> EmptyImage] }

CategoryLists == SeqsUpTo(CatNames, MaxCats)
CustomizationLists == SeqsUpTo(CusNames, MaxCus)
MenuLists == SeqsUpTo(MenuItems, MaxMenu)

DummyData ==
    [categories : CategoryLists, customizations : CustomizationLists, menu : MenuLists]

VARIABLES
    data,               \* the static dataset (dummyData)
    db,                 \* the remote store: target -> set of documents (files)
    nextId,             \* source of the unique ids
    run,                \* number of the seed() call
    pc,                 \* position of seed()
    err,                \* the error seed() rejected with ("" while none)
    ci,                 \* index in Targets of the target being cleared
    inflight,           \* ids whose delete is issued and not settled
    k,                  \* index of the category / customization loop
    categoryMap,        \* name -> id
    customizationMap,   \* name -> id
    menuMap,            \* name -> id
    i,                  \* index of the menu loop
    j,                  \* index of the customization loop of item i
    doc,                \* id of the menu document of item i
    attempt,            \* attempt of uploadImageToStorage
    waits,              \* delays waited by the current upload, in ms
    outcomes,           \* outcome of each attempt of the current upload
    made,               \* id of the file the current upload created (0: none)
    uploadedImageUrl,   \* result of uploadImageToStorage for item i
    linked,             \* <<i, j>> whose join create was issued in this run
    linkFailed,         \* <<i, j>> whose join create failed in this run
    lateIssue,          \* a remote call was issued after a fatal failure
    prev,               \* how the previous call of seed() ended ("": none)
    deleted,            \* targets an entry of which this run has deleted
    card,               \* the menu card: "unmounted" or "shown"
    image_url,          \* the image reference of the item the card is given
    imageUrl,           \* the URL the card computed from it
    imageError          \* the card's imageError state

seedVars == <<data, db, nextId, run, pc, err, ci, inflight, k, categoryMap,
          customizationMap, menuMap, i, j, doc, attempt, waits, outcomes, made,
          uploadedImageUrl, linked, linkFailed, lateIssue, prev, deleted>>

cardVars == <<card, image_url, imageUrl, imageError>>

vars == <<seedVars, cardVars>>

\* ------------------------------------------------------------ plain objects
\* A Record<string, string> that starts as {}.
EmptyMap == [n \in {} |-> 0]

\* Mutant of Put: the id is written to every key of the object.
PutShared(map, key, id) == [n \in DOMAIN map \cup {key} |-> id]

\* map[key] = id
Put(map, key, id) == [n \in DOMAIN map \cup {key} |-> IF n = key THEN id ELSE map[n]]

\* map[key]; 0 stands for undefined, which is falsy as 0 is (ids are >= 1).
Get(map, key) == IF key \in DOMAIN map THEN map[key] ELSE 0

\* -------------------------------------------------------- the remote store
\* What the targets hold before the first run: n entries each, of run 0.
Legacy(t, n) ==
    IF t = "menu"
        THEN {[id |-> m, run |-> 0, idx |-> 0, name |-> "Legacy",
               image_url |-> HttpsImage, categories |-> 0] : m \in 1..n}
    ELSE IF t = "menu_customizations"
        THEN {[id |-> m, run |-> 0, item |-> 0, pos |-> 0, menu |-> 0,
               customizations |-> 0] : m \in 1..n}
    ELSE IF t = "storage"
        THEN {[id |-> m, run |-> 0, uri |-> HttpsImage] : m \in 1..n}
    ELSE {[id |-> m, run |-> 0, idx |-> 0, name |-> "Legacy"] : m \in 1..n}

Ids(t) == {d.id : d \in db[t]}

\* storage.getFileView(bucketId, file.$id): the store's view URL of a file.
ViewUrl(fileId) == [scheme |-> "https", managed |-> TRUE, file |-> fileId]

\* ------------------------------------------------------------------- Init
\* No card is mounted while the seed script runs.
NoCard ==
    /\ card = "unmounted"
    /\ image_url = ""
    /\ imageUrl = ""
    /\ imageError = FALSE

Init ==
    /\ NoCard
    /\ data \in DummyData
    /\ \E n \in 0..MaxOld : db = [t \in {Targets[c] : c \in 1..NumTargets} |-> Legacy(t, n)]
    /\ nextId = MaxOld + 1
    /\ run = 1
    /\ pc = "clear"
    /\ err = ""
    /\ ci = 1
    /\ inflight = {}
    /\ k = 1
    /\ categoryMap = EmptyMap
    /\ customizationMap = EmptyMap
    /\ menuMap = EmptyMap
    /\ i = 1
    /\ j = 1
    /\ doc = 0
    /\ attempt = 1
    /\ waits = <<>>
    /\ outcomes = <<>>
    /\ made = 0
    /\ uploadedImageUrl = EmptyImage
    /\ linked = {}
    /\ linkFailed = {}
    /\ lateIssue = FALSE
    /\ prev = ""
    /\ deleted = {}

\* --------------------------------------------------------- control of seed
\* Where seed() goes when a loop is over: an empty list is skipped.
StartMenu == IF Len(data.menu) > 0 THEN "upload" ELSE "done"
StartCustomizations == IF Len(data.customizations) > 0 THEN "customizations" ELSE StartMenu
StartCategories == IF Len(data.categories) > 0 THEN "categories" ELSE StartCustomizations

\* Mutant of AfterClear: clearStorage is not called.
AfterClearSkipsStorage(c) == IF c < NumTargets - 1 THEN "clear" ELSE StartCategories

\* Mutant of AfterClear: the category phase starts after the first clear.
AfterClearEarly(c) == StartCategories

\* seed() after the clear of target c returned: the next clear, and after the
\* last one (clearStorage) the category phase.
AfterClear(c) == IF c < NumTargets THEN "clear" ELSE StartCategories

\* Mutant of Rethrow: the catch of the customization loop does not rethrow.
RethrowSwallowed(e) == IF e = "customization" THEN StartMenu ELSE "failed"

\* The catch blocks of clearAll, clearStorage and of the category,
\* customization and menu loops log and rethrow; so does seed()'s own catch.
Rethrow(e) == "failed"

\* Every remote call issued while an error has been thrown is a late one.
Issue == lateIssue' = (lateIssue \/ err # "")

\* --------------------------------------------------------------- the clear
\* Mutant of Fanout: only the first listed entry is deleted.
FanoutFirstOnly(t) == {id \in Ids(t) : \A o \in Ids(t) : id <= o}

\* list.documents.map(doc => deleteDocument(.., doc.$id)): one delete per
\* listed entry, all issued at once.
Fanout(t) == Ids(t)

\* Mutant of AllSettled: the clear does not wait for its deletes.
AllSettledAny(pending) == TRUE

\* Promise.all over the issued deletes is fulfilled when none is pending.
AllSettled(pending) == pending = {}

ListAndDelete(t) ==
    /\ pc = "clear"
    /\ UNCHANGED cardVars
    /\ Issue
    /\ \/ \* the list call fails
          /\ pc' = Rethrow("list")
          /\ err' = "list"
          /\ UNCHANGED <<inflight, ci>>
       \/ \* the list call succeeds and the deletes are issued
          /\ inflight' = Fanout(t)
          /\ IF AllSettled(Fanout(t))
                THEN pc' = AfterClear(ci) /\ ci' = ci + 1
                ELSE pc' = "deleting" /\ ci' = ci
          /\ err' = err
    /\ UNCHANGED <<data, db, nextId, run, k, categoryMap, customizationMap, menuMap,
                   i, j, doc, attempt, waits, outcomes, made, uploadedImageUrl,
                   linked, linkFailed, prev, deleted>>

clearAll == ci < NumTargets /\ ListAndDelete(Targets[ci])

clearStorage == ci = NumTargets /\ ListAndDelete(Targets[ci])

\* One issued delete settles.  The first failure rejects Promise.all, and with it
\* the clear and seed(); the other deletes stay in flight and settle later.
deleteSettled ==
    /\ pc \in {"deleting", "failed"}
    /\ UNCHANGED cardVars
    /\ \E id \in inflight :
        /\ inflight' = inflight \ {id}
        /\ \/ \* deleted
              /\ db' = [db EXCEPT ![Targets[ci]] = {d \in @ : d.id # id}]
              /\ deleted' = deleted \cup {Targets[ci]}
              /\ IF pc = "deleting" /\ AllSettled(inflight \ {id})
                    THEN pc' = AfterClear(ci) /\ ci' = ci + 1
                    ELSE pc' = pc /\ ci' = ci
              /\ err' = err
           \/ \* the delete fails
              /\ db' = db
              /\ deleted' = deleted
              /\ ci' = ci
              /\ IF pc = "deleting"
                    THEN pc' = Rethrow("delete") /\ err' = "delete"
                    ELSE pc' = pc /\ err' = err
    /\ UNCHANGED <<data, nextId, run, k, categoryMap, customizationMap, menuMap,
                   i, j, doc, attempt, waits, outcomes, made, uploadedImageUrl,
                   linked, linkFailed, lateIssue, prev>>

\* ------------------------------------------------ categories, customizations
\* Mutant of AfterFailure: the entries of the run are removed on a failure.
AfterFailureRollsBack(store) ==
    [t \in DOMAIN store |-> {d \in store[t] : d.run # run}]

\* catch (error) { console.error(...); throw error; }: the store is left as
\* it is.
AfterFailure(store) == store

CreatedDoc(idx, name) == [id |-> nextId, run |-> run, idx |-> idx, name |-> name]

createCategory ==
    /\ pc = "categories"
    /\ UNCHANGED cardVars
    /\ Issue
    /\ LET cat == data.categories[k] IN
        \/ /\ db' = [db EXCEPT !["categories"] = @ \cup {CreatedDoc(k, cat)}]
           /\ nextId' = nextId + 1
           /\ categoryMap' = Put(categoryMap, cat, nextId)
           /\ IF k < Len(data.categories)
                 THEN pc' = "categories" /\ k' = k + 1
                 ELSE pc' = StartCustomizations /\ k' = 1
           /\ err' = err
        \/ /\ pc' = Rethrow("category")
           /\ err' = "category"
           /\ db' = AfterFailure(db)
           /\ UNCHANGED <<nextId, categoryMap, k>>
    /\ UNCHANGED <<data, run, ci, inflight, customizationMap, menuMap, i, j, doc,
                   attempt, waits, outcomes, made, uploadedImageUrl, linked, linkFailed,
                   prev, deleted>>

createCustomization ==
    /\ pc = "customizations"
    /\ UNCHANGED cardVars
    /\ Issue
    /\ LET cus == data.customizations[k] IN
        \/ /\ db' = [db EXCEPT !["customizations"] = @ \cup {CreatedDoc(k, cus)}]
           /\ nextId' = nextId + 1
           /\ customizationMap' = Put(customizationMap, cus, nextId)
           /\ IF k < Len(data.customizations)
                 THEN pc' = "customizations" /\ k' = k + 1
                 ELSE pc' = StartMenu /\ k' = 1
           /\ err' = err
        \/ /\ pc' = Rethrow("customization")
           /\ err' = "customization"
           /\ db' = AfterFailure(db)
           /\ UNCHANGED <<nextId, customizationMap, k>>
    /\ UNCHANGED <<data, run, ci, inflight, categoryMap, menuMap, i, j, doc,
                   attempt, waits, outcomes, made, uploadedImageUrl, linked, linkFailed,
                   prev, deleted>>

\* ------------------------------------------------------ uploadImageToStorage
\* Mutant of ValidUrl: the check of the URL is left out.
ValidUrlAny(url) == TRUE

\* !imageUrl || !imageUrl.startsWith('http') does not throw.
ValidUrl(url) == url.scheme \in {"http", "https"}

\* What one attempt can come to: the URL check throws ("invalid"); fetch throws
\* or is aborted by the 30 s timer ("fetch_error"); the response is not ok
\* ("not_ok"); the body is empty ("empty_body"); storage.createFile rejects
\* ("create_failed"); or the file is created ("ok").
AttemptOutcomes(url) ==
    IF ValidUrl(url)
        THEN {"fetch_error", "not_ok", "empty_body", "create_failed", "ok"}
        ELSE {"invalid"}

\* Mutant of UploadResult: the source URL is returned after the upload.
UploadResultOriginal(url, fileId) == url

\* return viewUrl.toString()
UploadResult(url, fileId) == ViewUrl(fileId)

\* if (attempt === retries) return imageUrl
LastAttempt(a) == a = retries

\* Mutant of BackoffDelay: the delay grows linearly.
BackoffLinear(a) == a * BackoffUnitMs

\* Math.pow(2, attempt) * 1000
BackoffDelay(a) == (2 ^ a) * BackoffUnitMs

\* Mutant of NextAttempt: the loop counter is not advanced.
NextAttemptSame(a) == a

\* attempt++
NextAttempt(a) == a + 1

\* attempt <= retries
InLoop(a) == a <= retries

\* Mutant of AfterExhausted: the last failure is thrown to seed().
AfterExhaustedThrows == "failed"

\* return imageUrl: the routine falls back to the source URL instead of
\* throwing, so seed() goes on to the category check of the item.
AfterExhausted == "create"

uploadAttempt ==
    /\ pc = "upload"
    /\ UNCHANGED cardVars
    /\ LET url == data.menu[i].image_url IN
       \E o \in AttemptOutcomes(url) :
        /\ outcomes' = Append(outcomes, o)
        /\ IF o = "invalid" THEN lateIssue' = lateIssue ELSE Issue
        /\ IF o = "ok"
              THEN /\ db' = [db EXCEPT !["storage"] =
                                @ \cup {[id |-> nextId, run |-> run, uri |-> url]}]
                   /\ nextId' = nextId + 1
                   /\ made' = nextId
                   /\ uploadedImageUrl' = UploadResult(url, nextId)
                   /\ pc' = "create"
                   /\ err' = err
              ELSE /\ UNCHANGED <<db, nextId, made>>
                   /\ IF LastAttempt(attempt)
                         THEN /\ uploadedImageUrl' = url
                              /\ pc' = AfterExhausted
                              /\ err' = (IF AfterExhausted = "failed" THEN "upload" ELSE err)
                         ELSE /\ uploadedImageUrl' = uploadedImageUrl
                              /\ pc' = "backoff"
                              /\ err' = err
    /\ UNCHANGED <<data, run, ci, inflight, k, categoryMap, customizationMap,
                   menuMap, i, j, doc, attempt, waits, linked, linkFailed, prev, deleted>>

\* The timer of the backoff fires and the loop goes to the next attempt; were
\* the loop to run out, the routine would return the source URL.
uploadBackoff ==
    /\ pc = "backoff"
    /\ UNCHANGED cardVars
    /\ waits' = Append(waits, BackoffDelay(attempt))
    /\ attempt' = NextAttempt(attempt)
    /\ IF InLoop(NextAttempt(attempt))
          THEN pc' = "upload" /\ uploadedImageUrl' = uploadedImageUrl
          ELSE pc' = "create" /\ uploadedImageUrl' = data.menu[i].image_url
    /\ UNCHANGED <<data, db, nextId, run, err, ci, inflight, k, categoryMap,
                   customizationMap, menuMap, i, j, doc, outcomes, made,
                   linked, linkFailed, lateIssue, prev, deleted>>

\* ---------------------------------------------------------------- the menu
\* Mutant of CategoryFound: the check is left out.
CategoryFoundAlways(name) == TRUE

\* Mutant of CustomizationFound: the check is left out.
CustomizationFoundAlways(name) == TRUE

\* !categoryMap[item.category_name] does not throw.
CategoryFound(name) == Get(categoryMap, name) # 0

\* !customizationMap[cusName] does not skip.
CustomizationFound(name) == Get(customizationMap, name) # 0

\* The next iteration of the menu loop, or the summary after the last one.
NextItem(n) == IF n < Len(data.menu) THEN "upload" ELSE "done"

\* Mutant of AfterLinkError: the catch of the join create rethrows.
AfterLinkErrorThrows(next) == "failed"

\* Mutant of AfterLinkError: a failed join create ends the joins of the item.
AfterLinkErrorBreaks(next) == NextItem(i)

\* The catch of the join create logs and goes on with the next customization.
AfterLinkError(next) == next

\* The locals of an upload that has returned.
ResetUpload ==
    /\ attempt' = 1
    /\ waits' = <<>>
    /\ outcomes' = <<>>
    /\ made' = 0
    /\ uploadedImageUrl' = EmptyImage

createMenuItem ==
    /\ pc = "create"
    /\ UNCHANGED cardVars
    /\ LET item == data.menu[i] IN
        IF ~CategoryFound(item.category_name)
        THEN /\ pc' = Rethrow("category_not_found")
             /\ err' = "category_not_found"
             /\ db' = AfterFailure(db)
             /\ UNCHANGED <<nextId, menuMap, doc, i, j, lateIssue>>
        ELSE /\ Issue
             /\ \/ /\ db' = [db EXCEPT !["menu"] = @ \cup
                              {[id |-> nextId, run |-> run, idx |-> i, name |-> item.name,
                                image_url |-> uploadedImageUrl,
                                categories |-> Get(categoryMap, item.category_name)]}]
                   /\ nextId' = nextId + 1
                   /\ menuMap' = Put(menuMap, item.name, nextId)
                   /\ err' = err
                   /\ IF Len(item.customizations) > 0
                         THEN pc' = "link" /\ doc' = nextId /\ i' = i /\ j' = 1
                         ELSE /\ pc' = NextItem(i)
                              /\ doc' = 0
                              /\ i' = (IF i < Len(data.menu) THEN i + 1 ELSE i)
                              /\ j' = 1
                \/ /\ pc' = Rethrow("menu")
                   /\ err' = "menu"
                   /\ db' = AfterFailure(db)
                   /\ UNCHANGED <<nextId, menuMap, doc, i, j>>
    /\ ResetUpload
    /\ UNCHANGED <<data, run, ci, inflight, k, categoryMap, customizationMap,
                   linked, linkFailed, prev, deleted>>

linkCustomization ==
    /\ pc = "link"
    /\ UNCHANGED cardVars
    /\ LET item == data.menu[i]
           cusName == item.customizations[j]
           next == IF j < Len(item.customizations) THEN "link" ELSE NextItem(i)
           Advance(p) ==
               /\ pc' = p
               /\ IF p = "link"
                     THEN j' = j + 1 /\ i' = i /\ doc' = doc
                     ELSE /\ j' = 1
                          /\ doc' = (IF p = "failed" THEN doc ELSE 0)
                          /\ i' = (IF p = "upload" THEN i + 1 ELSE i)
       IN
        IF ~CustomizationFound(cusName)
        THEN /\ Advance(next)
             /\ UNCHANGED <<db, nextId, err, linked, linkFailed, lateIssue>>
        ELSE /\ Issue
             /\ linked' = linked \cup {<<i, j>>}
             /\ \/ /\ db' = [db EXCEPT !["menu_customizations"] = @ \cup
                              {[id |-> nextId, run |-> run, item |-> i, pos |-> j,
                                menu |-> doc,
                                customizations |-> Get(customizationMap, cusName)]}]
                   /\ nextId' = nextId + 1
                   /\ Advance(next)
                   /\ UNCHANGED <<err, linkFailed>>
                \/ /\ linkFailed' = linkFailed \cup {<<i, j>>}
                   /\ Advance(AfterLinkError(next))
                   /\ err' = (IF AfterLinkError(next) = "failed" THEN "link" ELSE err)
                   /\ UNCHANGED <<db, nextId>>
    /\ UNCHANGED <<data, run, ci, inflight, k, categoryMap, customizationMap, menuMap,
                   attempt, waits, outcomes, made, uploadedImageUrl, prev, deleted>>

\* ------------------------------------------------------------- the summary
\* Object.keys(map).length: the number of distinct keys of the map.
KeyCount(map) == Cardinality(DOMAIN map)

\* The three numbers seed() logs after the last phase.
Summary ==
    [categories     |-> KeyCount(categoryMap),
     customizations |-> KeyCount(customizationMap),
     menu           |-> KeyCount(menuMap)]

\* ------------------------------------------------------------ specification
Next ==
    \/ clearAll
    \/ clearStorage
    \/ deleteSettled
    \/ createCategory
    \/ createCustomization
    \/ uploadAttempt
    \/ uploadBackoff
    \/ createMenuItem
    \/ linkCustomization

Spec == Init /\ [][Next]_vars

\* Every remote call settles and every timer fires, and the runtime then runs
\* the continuation that awaits it: a step that can be taken is taken.
SpecLive == Init /\ [][Next]_vars /\ WF_vars(Next)

\* seed() is called again once the previous call has ended and the store is
\* quiet: the store keeps what the previous run left, the locals start anew.
seedAgain ==
    /\ pc \in {"done", "failed"}
    /\ UNCHANGED cardVars
    /\ inflight = {}
    /\ run < MaxRuns
    /\ run' = run + 1
    /\ prev' = pc
    /\ deleted' = {}
    /\ pc' = "clear"
    /\ err' = ""
    /\ ci' = 1
    /\ k' = 1
    /\ categoryMap' = EmptyMap
    /\ customizationMap' = EmptyMap
    /\ menuMap' = EmptyMap
    /\ i' = 1
    /\ j' = 1
    /\ doc' = 0
    /\ linked' = {}
    /\ linkFailed' = {}
    /\ UNCHANGED <<data, db, nextId, inflight, attempt, waits, outcomes, made,
                   uploadedImageUrl, lateIssue>>

InitFresh == Init /\ \A c \in 1..NumTargets : db[Targets[c]] = {}

NextTwice == Next \/ seedAgain

SpecTwice == InitFresh /\ [][NextTwice]_vars

\* ----------------------------------------------------------- the menu card
\* appwriteConfig of the app: the values of one deployment.
Endpoint == "https://cloud.example.io/v1"
ProjectId == "proj"
BucketId == "assets"

\* url.startsWith(p)
startsWith(url, p) == Len(url) >= Len(p) /\ SubSeq(url, 1, Len(p)) = p

\* url.includes(p)
includes(url, p) ==
    \E a \in 1..(Len(url) - Len(p) + 1) : SubSeq(url, a, a + Len(p) - 1) = p

\* `${url}?project=${appwriteConfig.projectId}`
WithProject(url) == url \o "?project=" \o ProjectId

\* The display URL of an image reference: the first branch that matches.
getImageUrl(url) ==
    IF url = "" THEN ""
    ELSE IF startsWith(url, "http://") \/ startsWith(url, "https://") THEN url
    ELSE IF includes(url, "/storage/buckets/") THEN WithProject(url)
    ELSE IF Len(url) > 0 /\ ~includes(url, "/")
        THEN Endpoint \o "/storage/buckets/" \o BucketId \o "/files/" \o url
                 \o "/view?project=" \o ProjectId
    ELSE WithProject(url)

\* The pieces image references are put together from.
Parts == {"http://", "https://", "img.example.com", "/storage/buckets/",
          "assets/files/f1/view", "f1", "/", "?project=proj", "images"}

RECURSIVE Join(_)
Join(ps) == IF ps = <<>> THEN "" ELSE Head(ps) \o Join(Tail(ps))

\* item.image_url of the items the card is given.
ImageRefs == {Join(ps) : ps \in SeqsUpTo(Parts, MaxParts)}

\* const imageUrl = getImageUrl(image_url): the card renders.
MenuCard ==
    /\ card = "unmounted"
    /\ card' = "shown"
    /\ imageUrl' = getImageUrl(image_url)
    /\ UNCHANGED <<image_url, imageError>>
    /\ UNCHANGED seedVars

\* onError of the image the card shows.
handleImageError ==
    /\ card = "shown"
    /\ imageUrl # ""
    /\ ~imageError
    /\ imageError' = TRUE
    /\ UNCHANGED <<card, image_url, imageUrl>>
    /\ UNCHANGED seedVars

\* The seed script is not part of the app: nothing of it runs beside a card.
NoSeed ==
    /\ data = [categories |-> <<>>, customizations |-> <<>>, menu |-> <<>>]
    /\ db = [t \in {Targets[c] : c \in 1..NumTargets} |-> {}]
    /\ nextId = 1
    /\ run = 0
    /\ pc = "idle"
    /\ err = ""
    /\ ci = 1
    /\ inflight = {}
    /\ k = 1
    /\ categoryMap = EmptyMap
    /\ customizationMap = EmptyMap
    /\ menuMap = EmptyMap
    /\ i = 1
    /\ j = 1
    /\ doc = 0
    /\ attempt = 1
    /\ waits = <<>>
    /\ outcomes = <<>>
    /\ made = 0
    /\ uploadedImageUrl = EmptyImage
    /\ linked = {}
    /\ linkFailed = {}
    /\ lateIssue = FALSE
    /\ prev = ""
    /\ deleted = {}

InitCard ==
    /\ NoSeed
    /\ card = "unmounted"
    /\ image_url \in ImageRefs
    /\ imageUrl = ""
    /\ imageError = FALSE

NextCard ==
    \/ MenuCard
    \/ handleImageError

SpecCard == InitCard /\ [][NextCard]_vars

\* ------------------------------------------------------- terms of the claims
CategoryNames == {data.categories[c] : c \in 1..Len(data.categories)}
CustomizationNames == {data.customizations[c] : c \in 1..Len(data.customizations)}

\* Item n names a category that is no key of the complete lookup table.
MissingCategory(n) == data.menu[n].category_name \notin CategoryNames

\* The positions <<n, p>> of the customization lists of the menu.
LinkPositions ==
    UNION {{<<n, p>> : p \in 1..Len(data.menu[n].customizations)} : n \in 1..Len(data.menu)}

Resolves(n, p) == data.menu[n].customizations[p] \in CustomizationNames

ResolvableLinks == {l \in LinkPositions : Resolves(l[1], l[2])}

\* The entries of target t that this run created.
OfRun(t) == {d \in db[t] : d.run = run}

\* The menu loop of this run has left item n behind.
Past(n) == \/ pc = "done"
           \/ pc \in {"upload", "backoff", "create", "link", "failed"} /\ i > n

\* The errors that seed() rethrows.
FatalErrors == {"list", "delete", "category", "customization", "category_not_found", "menu"}

JoinOf(n, p) == {d \in OfRun("menu_customizations") : d.item = n /\ d.pos = p}

AllTargets == {Targets[c] : c \in 1..NumTargets}

\* ------------------------------------------------------------------ claims

\* C1: a menu item whose category_name is no key of the category lookup table
\* makes seed() fail: the run never reaches its summary, the menu loop never
\* gets past the item, and the menu collection never holds a record of it,
\* wherever the item stands in the menu list.
C1_MissingCategoryFails ==
    \A n \in 1..Len(data.menu) :
        MissingCategory(n) =>
            /\ pc # "done"
            /\ ~Past(n)
            /\ \A d \in db["menu"] : d.idx # n

C1_Witness ==
    /\ pc = "failed"
    /\ err = "category_not_found"
    /\ i = 2
    /\ MissingCategory(2)
    /\ \E d \in OfRun("menu") : d.idx = 1

\* C2 as stated: once the menu loop is past an item that lists a missing
\* customization name, the item's record exists, seed() has not failed because
\* of it, no join record exists for a missing name, and a join record exists
\* for every name of the item that resolves.
C2_AsStated ==
    /\ pc = "failed" => err \in FatalErrors
    /\ \A n \in 1..Len(data.menu) :
        (Past(n) /\ \E p \in 1..Len(data.menu[n].customizations) : ~Resolves(n, p)) =>
            /\ \E d \in OfRun("menu") : d.idx = n
            /\ \A p \in 1..Len(data.menu[n].customizations) :
                IF Resolves(n, p)
                    THEN \E d \in JoinOf(n, p) :
                            d.customizations =
                                Get(customizationMap, data.menu[n].customizations[p])
                    ELSE JoinOf(n, p) = {}

\* C2 as amended: the same, except that for every name that resolves the join
\* create is issued, and the join record exists unless that create failed.
C2_MissingCustomizationSkipped ==
    /\ pc = "failed" => err \in FatalErrors
    /\ \A n \in 1..Len(data.menu) :
        (Past(n) /\ \E p \in 1..Len(data.menu[n].customizations) : ~Resolves(n, p)) =>
            /\ \E d \in OfRun("menu") : d.idx = n
            /\ \A p \in 1..Len(data.menu[n].customizations) :
                IF Resolves(n, p)
                    THEN /\ <<n, p>> \in linked
                         /\ <<n, p>> \notin linkFailed =>
                                \E d \in JoinOf(n, p) :
                                    d.customizations =
                                        Get(customizationMap, data.menu[n].customizations[p])
                    ELSE <<n, p>> \notin linked /\ JoinOf(n, p) = {}

C2_Witness ==
    /\ pc = "done"
    /\ \E n \in 1..Len(data.menu) :
        \E p, q \in 1..Len(data.menu[n].customizations) :
            /\ p < q
            /\ ~Resolves(n, p)
            /\ Resolves(n, q)
            /\ JoinOf(n, p) = {}
            /\ JoinOf(n, q) # {}

\* C3: when every attempt of uploadImageToStorage has failed, the routine has
\* made exactly 3 attempts, has waited 2 s after the first and 4 s after the
\* second and not after the third, and returns the original URL.
C3_AllAttemptsFail ==
    (pc = "create" /\ \A a \in 1..Len(outcomes) : outcomes[a] # "ok") =>
        /\ Len(outcomes) = 3
        /\ waits = <<2000, 4000>>
        /\ made = 0
        /\ uploadedImageUrl = data.menu[i].image_url

C3_Witness ==
    /\ pc = "create"
    /\ outcomes = <<"not_ok", "not_ok", "not_ok">>

\* C4: when attempt k of uploadImageToStorage fetches the image and creates the
\* file, the routine returns the store's view URL of the file created in that
\* attempt, which is not the original URL, and k is its last attempt.
C4_SuccessReturnsViewUrl ==
    \A a \in 1..Len(outcomes) :
        outcomes[a] = "ok" =>
            /\ pc = "create"
            /\ a = Len(outcomes)
            /\ Len(waits) = a - 1
            /\ \E f \in OfRun("storage") : f.id = made
            /\ uploadedImageUrl = ViewUrl(made)
            /\ uploadedImageUrl # data.menu[i].image_url

C4_Witness ==
    /\ pc = "create"
    /\ outcomes = <<"empty_body", "create_failed", "ok">>

\* C5 as stated: after the second of two successful runs in succession the
\* category, customization and menu collections hold as many documents as their
\* input lists, the join collection holds as many documents as there are
\* resolvable links, and every entry of the store is of the second run.
C5_AsStated ==
    (pc = "done" /\ run = 2 /\ prev = "done") =>
        /\ Cardinality(db["categories"]) = Len(data.categories)
        /\ Cardinality(db["customizations"]) = Len(data.customizations)
        /\ Cardinality(db["menu"]) = Len(data.menu)
        /\ Cardinality(db["menu_customizations"]) = Cardinality(ResolvableLinks)
        /\ \A t \in AllTargets : db[t] = OfRun(t)

\* C5 as amended: the same, after the first run as after the second, except
\* that the join collection holds one document for each resolvable link whose
\* join create did not fail in that run.
C5_SecondRunReplaces ==
    (pc = "done" /\ prev \in {"", "done"}) =>
        /\ Cardinality(db["categories"]) = Len(data.categories)
        /\ Cardinality(db["customizations"]) = Len(data.customizations)
        /\ Cardinality(db["menu"]) = Len(data.menu)
        /\ linkFailed \subseteq ResolvableLinks
        /\ Cardinality(db["menu_customizations"]) =
                Cardinality(ResolvableLinks) - Cardinality(linkFailed)
        /\ \A l \in ResolvableLinks \ linkFailed : Cardinality(JoinOf(l[1], l[2])) = 1
        /\ \A t \in AllTargets : db[t] = OfRun(t)

C5_Witness ==
    /\ run = 2
    /\ pc = "done"
    /\ prev = "done"
    /\ deleted = AllTargets
    /\ linkFailed # {}
    /\ Cardinality(db["menu_customizations"]) = 3

\* C6: once the clear of a target has returned without error, the target holds
\* nothing that was there before the run, whatever it held; until the first
\* create of the run every cleared target is empty.
C6_ClearEmpties ==
    \A c \in 1..NumTargets :
        c < ci =>
            /\ db[Targets[c]] = OfRun(Targets[c])
            /\ pc \in {"clear", "deleting"} => db[Targets[c]] = {}

C6_Witness ==
    /\ run = 2
    /\ ci > NumTargets
    /\ pc \notin {"failed", "done"}
    /\ deleted = AllTargets
    /\ \A t \in AllTargets : db[t] = {}

\* C7: after a successful run the lookup table maps the name of every input
\* category to the id of exactly one record of the category collection, a
\* record this run created for an input category of that name, and distinct
\* names never map to the same record.
C7_LookupYieldsOneRecord ==
    pc = "done" =>
        /\ \A c \in 1..Len(data.categories) :
            LET name == data.categories[c]
                id == Get(categoryMap, name)
            IN  /\ id # 0
                /\ Cardinality({d \in db["categories"] : d.id = id}) = 1
                /\ \A d \in db["categories"] :
                    d.id = id => /\ d.name = name
                                 /\ d.run = run
                                 /\ data.categories[d.idx] = name
        /\ \A c1, c2 \in 1..Len(data.categories) :
            data.categories[c1] # data.categories[c2] =>
                Get(categoryMap, data.categories[c1]) # Get(categoryMap, data.categories[c2])

C7_Witness ==
    /\ pc = "done"
    /\ Len(data.categories) = 2
    /\ data.categories[1] # data.categories[2]
    /\ Len(data.menu) = 2

\* C8: a failed list, delete, category create, customization create or menu
\* create makes seed() reject with that error, and from then on seed() issues
\* no call: no entry is created, no further delete is issued, and the store
\* changes only by deletes that were in flight already.
C8_FatalFailuresAbort ==
    /\ [](err # "" => (pc = "failed" /\ err \in FatalErrors /\ ~lateIssue))
    /\ [][pc = "failed" =>
            /\ pc' = "failed"
            /\ err' = err
            /\ nextId' = nextId
            /\ inflight' \subseteq inflight
            /\ \A t \in AllTargets : db'[t] \subseteq db[t]]_vars

C8_Witness ==
    /\ pc = "failed"
    /\ err = "customization"
    /\ OfRun("categories") # {}
    /\ deleted # {}

\* C9: a failed join create is not fatal: seed() never rejects with it, it goes
\* on to the join create of every later customization of the same item, and a
\* run that ends with the summary has created every menu item and issued the
\* join create of every resolvable link.
C9_LinkFailureIsNotFatal ==
    /\ pc = "failed" => err \in FatalErrors
    /\ \A l \in linkFailed :
        \A q \in 1..Len(data.menu[l[1]].customizations) :
            (q > l[2] /\ Resolves(l[1], q)) =>
                \/ <<l[1], q>> \in linked
                \/ pc = "link" /\ i = l[1] /\ j <= q
    /\ pc = "done" =>
        /\ ResolvableLinks \subseteq linked
        /\ \A n \in 1..Len(data.menu) : \E d \in OfRun("menu") : d.idx = n

C9_Witness ==
    /\ pc = "done"
    /\ Len(data.menu) = 2
    /\ <<1, 1>> \in linkFailed
    /\ JoinOf(1, 1) = {}
    /\ JoinOf(1, 2) # {}
    /\ \E d \in OfRun("menu") : d.idx = 2

\* C10: the phases of seed() follow one another: a category is created only
\* after all five clears have returned and no delete is pending, a
\* customization only after every category has been created, and an image is
\* uploaded or a menu item created only after every customization has been
\* created.
C10_PhasesInSequence ==
    /\ (OfRun("categories") # {} \/ pc = "categories") =>
            /\ ci > NumTargets
            /\ inflight = {}
    /\ (OfRun("customizations") # {} \/ pc = "customizations") =>
            /\ ci > NumTargets
            /\ inflight = {}
            /\ Cardinality(OfRun("categories")) = Len(data.categories)
    /\ (\/ OfRun("menu") # {}
        \/ OfRun("storage") # {}
        \/ pc \in {"upload", "backoff", "create", "link"}) =>
            /\ ci > NumTargets
            /\ inflight = {}
            /\ Cardinality(OfRun("categories")) = Len(data.categories)
            /\ Cardinality(OfRun("customizations")) = Len(data.customizations)

C10_Witness ==
    /\ pc = "upload"
    /\ i = 2
    /\ deleted = AllTargets
    /\ Cardinality(OfRun("categories")) = 2
    /\ Cardinality(OfRun("customizations")) = 2

\* C11: on a successful run the summary gives, for categories, customizations
\* and menu items, the number of records the run created in that collection,
\* also when two entries of one list share a name.
C11_AsStated ==
    pc = "done" =>
        /\ Summary.categories = Cardinality(OfRun("categories"))
        /\ Summary.customizations = Cardinality(OfRun("customizations"))
        /\ Summary.menu = Cardinality(OfRun("menu"))

\* The number of places of url at which p begins.
Occurrences(url, p) ==
    Cardinality({a \in 1..(Len(url) - Len(p) + 1) : SubSeq(url, a, a + Len(p) - 1) = p})

\* The input is no full web address (the first branch does not match).
NotHttp(url) == ~startsWith(url, "http://") /\ ~startsWith(url, "https://")

\* C12: getImageUrl classifies its input by first match (http(s) unchanged;
\* managed-storage path gets the project parameter appended; bare identifier
\* becomes the view URL of the file; any other non-empty value gets the
\* parameter appended), and in every case the result carries the project
\* parameter at most once.
C12_AsStated ==
    card = "shown" =>
        /\ (~NotHttp(image_url) => imageUrl = image_url)
        /\ (NotHttp(image_url) /\ includes(image_url, "/storage/buckets/")
                /\ ~includes(image_url, "project=")
               => imageUrl = image_url \o "?project=" \o ProjectId)
        /\ (image_url # "" /\ ~includes(image_url, "/")
               => imageUrl = Endpoint \o "/storage/buckets/" \o BucketId \o "/files/"
                                 \o image_url \o "/view?project=" \o ProjectId)
        /\ (image_url # "" /\ NotHttp(image_url) /\ includes(image_url, "/")
                /\ ~includes(image_url, "/storage/buckets/")
               => imageUrl = image_url \o "?project=" \o ProjectId)
        /\ Occurrences(imageUrl, "project=") <= 1

\* The clear of target number c is over and seed() has gone on.
Cleared(c) == c < ci \/ pc \notin {"clear", "deleting", "failed"}

\* seed() is at a step past the deletes of a clear: it starts the next clear
\* or is in a create phase or has ended with the summary.
PastDeletes == pc \in {"clear", "categories", "customizations", "upload", "backoff",
                       "create", "link", "done"}

\* The next clear and every later create start only after every delete issued
\* for the current target has succeeded.
DeletesJoined ==
    PastDeletes =>
        /\ inflight = {}
        /\ \A c \in 1..NumTargets : Cleared(c) => OfRun(Targets[c]) = db[Targets[c]]

\* C13 (as stated): the deletes of one target are issued together, the next
\* clear and any create start only after all of them have succeeded, and once
\* the run has aborted on a failed delete none of them is still in flight.
C13_AsStated ==
    /\ DeletesJoined
    /\ pc = "failed" /\ err = "delete" => inflight = {}

\* C13 (amended): the deletes of one target are issued together (one per listed
\* entry), the next clear and any create start only after all of them have
\* succeeded; a failed delete aborts the run at once, the deletes still in
\* flight settle later, and no new delete is issued after the abort.
C13_ClearJoinsItsDeletes ==
    /\ []DeletesJoined
    /\ [][/\ pc = "clear" /\ pc' = "deleting" => inflight' = Ids(Targets[ci])
          /\ pc = "deleting" /\ pc' = "failed" => err' = "delete" /\ inflight' \subseteq inflight
          /\ pc = "failed" => inflight' \subseteq inflight]_vars

\* A delete has failed and aborted the run while another delete of the same
\* clear is still in flight.
C13_Witness == pc = "failed" /\ err = "delete" /\ inflight # {}

\* seed() is in the menu phase, at item i.
InMenuPhase == pc \in {"upload", "backoff", "create", "link"}

\* The menu record this run created for item n.
RecordOf(n) == {d \in OfRun("menu") : d.idx = n}

\* Every step of item n is over: its record is created and a create was
\* attempted for each of its customization names that resolves.
ItemOver(n) ==
    /\ RecordOf(n) # {}
    /\ \A p \in 1..Len(data.menu[n].customizations) : Resolves(n, p) => <<n, p>> \in linked

\* No step of item n past its image upload has been taken.
ItemNotBegun(n) ==
    /\ RecordOf(n) = {}
    /\ \A p \in 1..Len(data.menu[n].customizations) : <<n, p>> \notin linked

\* C14: the menu items are processed one at a time in dataset order: the
\* upload of item i+1 starts only when the upload, the record creation and
\* every join-create attempt of item i are over; within one item the order is
\* image upload, category resolution, record creation, joins in list order.
C14_ItemsInOrder ==
    /\ [](InMenuPhase =>
            /\ \A n \in 1..(i - 1) : ItemOver(n)
            /\ \A n \in (i + 1)..Len(data.menu) : ItemNotBegun(n)
            /\ Cardinality(OfRun("storage")) <= (IF pc \in {"upload", "backoff"} THEN i - 1 ELSE i)
            /\ pc \in {"upload", "backoff", "create"} => ItemNotBegun(i)
            /\ pc = "create" => Len(outcomes) >= 1
            /\ pc = "link" =>
                  /\ RecordOf(i) # {} /\ \A d \in RecordOf(i) : d.id = doc
                  /\ \A p \in 1..Len(data.menu[i].customizations) :
                        /\ p < j /\ Resolves(i, p) => <<i, p>> \in linked
                        /\ p >= j => <<i, p>> \notin linked)
    /\ [][/\ db'["storage"] \ db["storage"] # {} => pc = "upload"
          /\ db'["menu"] \ db["menu"] # {} =>
                /\ pc = "create" /\ pc' \in {"link", "upload", "done"}
                /\ CategoryFound(data.menu[i].category_name)
          /\ linked' # linked =>
                /\ pc = "link" /\ linked' = linked \cup {<<i, j>>}
                /\ CustomizationFound(data.menu[i].customizations[j])
          /\ pc = "link" /\ pc' = "link" => i' = i /\ j' = j + 1
          /\ i' # i =>
                /\ i' = i + 1 /\ pc' = "upload"
                /\ \/ pc = "create" /\ Len(data.menu[i].customizations) = 0
                   \/ pc = "link" /\ j = Len(data.menu[i].customizations)]_vars

\* The upload of the second item has begun after the first item's record and
\* both of its joins were attempted, one of them failing.
C14_Witness ==
    /\ pc = "upload" /\ i = 2
    /\ Len(data.menu[1].customizations) = 2
    /\ linked = {<<1, 1>>, <<1, 2>>}
    /\ linkFailed = {<<1, 1>>}

\* The image of item i fails validation: it is empty or does not begin with http.
InvalidImage == data.menu[i].image_url \in {EmptyImage, FtpImage}

\* C15: for an input that is empty or does not begin with http, no attempt of
\* uploadImageToStorage issues a fetch or creates a file (every attempt ends in
\* the validation failure), and the routine returns the input unchanged
\* instead of raising an error.
C15_InvalidInputFallsBack ==
    /\ [](pc \in {"upload", "backoff", "create"} /\ InvalidImage =>
            /\ \A a \in 1..Len(outcomes) : outcomes[a] = "invalid"
            /\ made = 0
            /\ \A f \in OfRun("storage") : f.uri # data.menu[i].image_url
            /\ pc = "create" =>
                  /\ uploadedImageUrl = data.menu[i].image_url
                  /\ Len(outcomes) = retries
                  /\ err = "")
    /\ [][(pc \in {"upload", "backoff"} /\ InvalidImage) =>
              (/\ db' = db /\ nextId' = nextId /\ lateIssue' = lateIssue
               /\ pc' \in {"upload", "backoff", "create"})]_vars

\* The upload of an item whose image does not begin with http has returned
\* the input after three validation failures.
C15_Witness ==
    /\ pc = "create"
    /\ data.menu[i].image_url = FtpImage
    /\ outcomes = <<"invalid", "invalid", "invalid">>
    /\ uploadedImageUrl = FtpImage

\* The attempts of the current upload that failed.
FailedAttempts == {a \in 1..Len(outcomes) : outcomes[a] # "ok"}

\* C16: uploadImageToStorage never raises: whatever its attempts come to, it
\* returns a view URL or the original URL, so an image failure alone never
\* aborts seed(), and the menu-item record is created with image_url equal to
\* the returned value (the original URL when all attempts failed).
C16_UploadNeverRaises ==
    /\ [](err # "upload")
    /\ [](pc = "create" =>
            /\ made # 0 => /\ uploadedImageUrl = ViewUrl(made)
                           /\ outcomes[Len(outcomes)] = "ok"
            /\ made = 0 => /\ uploadedImageUrl = data.menu[i].image_url
                           /\ Cardinality(FailedAttempts) = retries)
    /\ [][(pc \in {"upload", "backoff"} => pc' \in {"upload", "backoff", "create"})
          /\ (db'["menu"] \ db["menu"] # {} =>
                \A d \in db'["menu"] \ db["menu"] : d.image_url = uploadedImageUrl)]_vars

\* A menu record was created with the original URL of an image that begins
\* with http, after every attempt to fetch or store it had failed.
C16_Witness ==
    /\ pc \in {"link", "upload", "done"}
    /\ \E d \in OfRun("menu") :
          /\ d.image_url = HttpsImage
          /\ data.menu[d.idx].image_url = HttpsImage

\* The errors of the create phases that seed() rethrows.
CreateErrors == {"category", "customization", "category_not_found", "menu"}

\* seed() has aborted on a fatal error of a create phase.
AbortedInCreate == pc = "failed" /\ err \in CreateErrors

\* Every entry this run has created, of any target.
CreatedInRun == UNION {OfRun(t) : t \in AllTargets}

\* C17: when seed() aborts on a fatal error in a create phase nothing is
\* rolled back: every category, customization, menu-item and join record and
\* every uploaded file created earlier in the run is still in the store,
\* unchanged, when the error is surfaced.
C17_NoRollback ==
    /\ [](AbortedInCreate =>
            {d.id : d \in CreatedInRun} = (MaxOld + 1)..(nextId - 1))
    /\ [][(pc' = "failed" /\ pc \in {"categories", "customizations", "create"} => db' = db)
          /\ (pc \in {"categories", "customizations", "upload", "backoff", "create", "link"}
                => \A t \in AllTargets : db[t] \subseteq db'[t])
          /\ (AbortedInCreate => db' = db)]_vars

\* The create of the second menu item has failed after categories,
\* customizations, a file, the first menu item and a join were created.
C17_Witness ==
    /\ AbortedInCreate /\ err = "menu" /\ i = 2
    /\ \A t \in AllTargets : OfRun(t) # {}

\* The clear phase of this run has succeeded: all five targets are cleared.
ClearSucceeded == ci > NumTargets

\* The record d of target t was created in this run before the entry with id
\* later, and is still in the store.
CreatedEarlier(t, later) == {d \in OfRun(t) : d.id < later}

\* C18: in every state of a run whose clear phase succeeded, every menu-item
\* record in the store references the id of a category record created earlier
\* in the same run, and every join record references the id of a menu-item
\* record and the id of a customization record, both created earlier in the
\* same run and still present.
C18_ReferentialIntegrity ==
    ClearSucceeded =>
        /\ \A m \in db["menu"] :
              \E c \in CreatedEarlier("categories", m.id) :
                  c.id = m.categories /\ c.name = data.menu[m.idx].category_name
        /\ \A l \in db["menu_customizations"] :
              /\ \E m \in CreatedEarlier("menu", l.id) : m.id = l.menu /\ m.idx = l.item
              /\ \E u \in CreatedEarlier("customizations", l.id) :
                    /\ u.id = l.customizations
                    /\ u.name = data.menu[l.item].customizations[l.pos]

\* A second run has ended with two menu records and a join record in the store.
C18_Witness ==
    /\ run = 2 /\ pc = "done"
    /\ Cardinality(db["menu"]) = 2
    /\ db["menu_customizations"] # {}

\* seed() has ended: it has reported the summary or rejected.
Ended == pc \in {"done", "failed"}

\* C19: when every remote call settles, every run of seed() ends, with the
\* summary or with a fatal error, and each call of uploadImageToStorage ends
\* after at most 3 attempts and at most 2 backoff waits.
C19_SeedTerminates ==
    /\ <>Ended
    /\ (pc \in {"upload", "backoff"}) ~> (pc \in {"create", "failed"})
    /\ [](/\ attempt <= retries
          /\ Len(outcomes) <= retries
          /\ Len(waits) <= retries - 1
          /\ Len(waits) <= 2)

\* The upload of the last menu item has ended with a view URL on its third
\* attempt, after two backoff waits.
C19_Witness ==
    /\ pc = "create" /\ i = Len(data.menu)
    /\ Len(outcomes) = 3 /\ Len(waits) = 2
    /\ outcomes[3] = "ok"

====
